---------------------------- MODULE Spec2Model ----------------------------
(***************************************************************************)
(* Proxy rotation and failure-adaptive retry control of skiptracer.py:     *)
(* ParallelProxyManager with the _worker threads of run_parallel (SpecPar),*)
(* ProxyRotator with the retry loop of run_sequential (SpecSeq), the       *)
(* RateLimiter used by fetch_html (SpecRate), _normalize_phone (SpecPhone),*)
(* and predict_hold_duration of human_behavior_ml.py (SpecHold).           *)
(*                                                                         *)
(* Conventions.  Times are whole seconds.  HUMANIZATION_SCALE and          *)
(* mobile_ratio are kept in hundredths (1.0 is 100, 0.05 is 5), so the     *)
(* arithmetic is exact decimal arithmetic.  List indices are 0-based as in *)
(* the source; PyIndex reads a list the way Python does.  A proxy URL is   *)
(* modelled by the two parts in which the URLs of the source differ, the   *)
(* user name and the port.  main() runs either run_parallel or             *)
(* run_sequential, so the fields that ParallelProxyManager and ProxyRotator*)
(* both have (residential, mobile, res_index, mob_index, stats) are the    *)
(* same variables here, used by SpecPar and by SpecSeq respectively.       *)
(***************************************************************************)
EXTENDS Integers, Sequences, FiniteSets, TLC

\* ------------------------------------------------------------------ bounds
\* Number of entries of RESIDENTIAL_PROXIES and MOBILE_PROXIES in the model.
NumResidential == 2
NumMobile == 2
\* Attempts (allocate calls that are let in) of one run_parallel.
MaxAttempts == 3
\* Attempts of one run_sequential.
MaxSeqAttempts == 12
\* The clock advances in steps of TickStep seconds, at most MaxTicks times.
TickStep == 120
MaxTicksPar == 1
MaxTicksSeq == 3
\* time.time() when the program starts.
T0 == 1000
\* Seconds for which the callers of RATE_LIMITER.wait are watched.
MaxRateTime == 6
\* Predictions and defaults of predict_hold_duration go up to this, in tenths
\* of a second.
MaxHoldTenths == 90
\* Length of the strings given to _normalize_phone.
MaxPhoneLen == 11

\* ------------------------------------------------------- program constants
MAX_PARALLEL_CONTEXTS == 5
INITIAL_MOBILE_RATIO == 30
MOBILE_RATIO_CAP == 70
MOBILE_RATIO_UP == 5
MOBILE_RATIO_DOWN == 2
COOLDOWN_SECS == 120
FAIL_STREAK_LIMIT == 3
SCALE_INIT == 100
SCALE_FLOOR == 100
SCALE_CAP == 200
SCALE_UP == 10
SCALE_DOWN == 5
SWITCH_FAILURES == 2
MOBILE_HOLD_SECS == 300

Proxy(user, i) == [user |-> user, port |-> 10000 + i]
None == [user |-> "", port |-> 0]

RESIDENTIAL_PROXIES == [i \in 1..NumResidential |-> Proxy("sph9k2p5z9", i)]
MOBILE_PROXIES == [i \in 1..NumMobile |-> Proxy("spo5y5143p", i)]

\* Values of --proxy: not given, a proxy of its own, or one that is also in
\* MOBILE_PROXIES.
ArgsProxy == {None, Proxy("custom", 1), MOBILE_PROXIES[1]}
\* Values of --parallel with which main() calls run_parallel: two workers
\* are the fewest that race.
ArgsParallel == {2}

ProxyStats ==
    [success |-> 0, failure |-> 0, blocks |-> 0, times |-> <<>>,
     cooldown_until |-> 0, fail_streak |-> 0]

Range(s) == {s[i] : i \in 1..Len(s)}
Min(a, b) == IF a < b THEN a ELSE b
Max(a, b) == IF a > b THEN a ELSE b
\* pool[i] of Python: a negative index counts from the end.
PyIndex(pool, i) == IF i < 0 THEN pool[Len(pool) + i + 1] ELSE pool[i + 1]

VARIABLES
    now,                \* time.time()
    HUMANIZATION_SCALE, \* the module global, in hundredths
    residential, mobile, res_index, mob_index, stats,
    mobile_ratio, in_use,
    lock,               \* ParallelProxyManager.lock: 0, or the worker holding it
    scan,               \* the allocate call of the lock holder
    worker_count, pc, locals, results, stop,
    mode, failures, success, last_mobile,
    main,               \* where run_parallel / run_sequential is
    cur,                \* locals of run_sequential
    last,               \* RATE_LIMITER.last
    wpc, wloc,          \* the threads inside RateLimiter.wait and their locals
    returned,           \* when each thread last returned from wait(domain)
    hold,               \* a call of predict_hold_duration
    phone               \* a call of _normalize_phone and one on its result

mgrVars == <<residential, mobile, res_index, mob_index, stats, mobile_ratio, in_use, lock, scan>>
wrkVars == <<worker_count, pc, locals, results, stop>>
rotVars == <<mode, failures, success, last_mobile>>
proxyVars == <<HUMANIZATION_SCALE, mgrVars, wrkVars, rotVars, main, cur>>
libVars == <<last, wpc, wloc, returned, hold, phone>>
vars == <<now, proxyVars, libVars>>

\* The variables of the library functions while run_parallel or
\* run_sequential is looked at.
LibIdle ==
    /\ last = <<>> /\ wpc = <<>> /\ wloc = <<>> /\ returned = <<>>
    /\ hold = <<>> /\ phone = <<>>

Workers == 1..worker_count
NoScan == [use_mobile |-> FALSE, pool |-> "", idx |-> 0, start |-> 0]
NoLocals == [proxy |-> None, ptype |-> "", start |-> 0, success |-> FALSE, blocked |-> FALSE]
NoCur == [proxy |-> None, ptype |-> "", start |-> 0, bot_block |-> TRUE]

RECURSIVE SumTimes(_)
SumTimes(S) ==
    IF S = {} THEN 0
    ELSE LET p == CHOOSE q \in S : TRUE
         IN  Len(stats[p].times) + SumTimes(S \ {p})
\* Attempts begun so far: released ones and those holding a proxy.
AttemptsBegun == SumTimes(DOMAIN stats) + Cardinality(in_use)

\* ------------------------------------------------- ParallelProxyManager
\* The lists a manager or rotator is built from.
ResidentialArg(argsProxy) == IF argsProxy # None THEN <<argsProxy>> ELSE RESIDENTIAL_PROXIES

PoolOf(name) == IF name = "mobile" THEN mobile ELSE residential
IndexOf(name) == IF name = "mobile" THEN mob_index ELSE res_index

\* Mutants of Available: the test without one of its conjuncts.
Available_IgnoresInUse(proxy) ==
    /\ proxy \in DOMAIN stats
    /\ stats[proxy].cooldown_until <= now
Available_IgnoresCooldown(proxy) ==
    /\ proxy \notin in_use
    /\ proxy \in DOMAIN stats

\* The test of _next_from_pool on one entry.
Available(proxy) ==
    /\ proxy \notin in_use
    /\ proxy \in DOMAIN stats
    /\ stats[proxy].cooldown_until <= now

\* The pool allocate turns to when _next_from_pool(pool) returned None;
\* "" when it has none left and returns (None, ptype).
NextPoolAfter(use_mobile, pool) ==
    IF use_mobile
    THEN (IF pool = "mobile" THEN "residential" ELSE "")
    ELSE (IF pool = "residential" THEN "mobile" ELSE "")

\* _next_from_pool returns (proxy, idx) in the call sc: allocate returns it
\* with the type of the scanned pool, and _worker notes the start time.
ScanFound(w, sc, proxy, idx) ==
    /\ in_use' = in_use \cup {proxy}
    /\ res_index' = IF sc.pool = "residential" THEN idx ELSE res_index
    /\ mob_index' = IF sc.pool = "mobile" THEN idx ELSE mob_index
    /\ lock' = 0
    /\ scan' = NoScan
    /\ locals' = [locals EXCEPT ![w] = [proxy |-> proxy, ptype |-> sc.pool, start |-> now,
                                        success |-> FALSE, blocked |-> FALSE]]
    /\ pc' = [pc EXCEPT ![w] = "attempt"]

\* _next_from_pool returns (None, idx) in the call sc: allocate scans its
\* other pool, or returns (None, ptype) and _worker returns.
ScanNone(w, sc, idx) ==
    LET next == NextPoolAfter(sc.use_mobile, sc.pool)
        res1 == IF sc.pool = "residential" THEN idx ELSE res_index
        mob1 == IF sc.pool = "mobile" THEN idx ELSE mob_index
    IN  /\ res_index' = res1
        /\ mob_index' = mob1
        /\ in_use' = in_use
        /\ locals' = locals
        /\ IF next # ""
           THEN /\ scan' = [sc EXCEPT !.pool = next,
                                      !.idx = IF next = "mobile" THEN mob1 ELSE res1,
                                      !.start = IF next = "mobile" THEN mob1 ELSE res1]
                /\ lock' = w
                /\ pc' = [pc EXCEPT ![w] = "scan"]
           ELSE /\ scan' = NoScan
                /\ lock' = 0
                /\ pc' = [pc EXCEPT ![w] = "done"]

\* One pass of the loop of _next_from_pool in the call sc (the test for an
\* empty pool included), made by the worker that holds the lock.
ScanIter(w, sc) ==
    LET pool == PoolOf(sc.pool)
    IN  IF Len(pool) = 0
        THEN ScanNone(w, sc, sc.idx)
        ELSE LET idx0 == IF sc.idx >= Len(pool) THEN 0 ELSE sc.idx
                 proxy == PyIndex(pool, idx0)
                 idx1 == idx0 + 1
             IN  IF Available(proxy)
                 THEN ScanFound(w, sc, proxy, idx1)
                 ELSE IF idx1 = sc.start
                 THEN ScanNone(w, sc, idx1)
                 ELSE /\ scan' = [sc EXCEPT !.idx = idx1]
                      /\ lock' = w
                      /\ pc' = [pc EXCEPT ![w] = "scan"]
                      /\ UNCHANGED <<res_index, mob_index, in_use, locals>>

\* allocate: the lock is taken, the pool is drawn, and the first pass of the
\* loop of the first _next_from_pool call is made.
Allocate(w) ==
    /\ w \in Workers /\ pc[w] = "allocate" /\ lock = 0
    /\ \E use_mobile \in BOOLEAN :
         LET first == IF use_mobile THEN "mobile" ELSE "residential"
         IN  ScanIter(w, [use_mobile |-> use_mobile, pool |-> first,
                          idx |-> IndexOf(first), start |-> IndexOf(first)])
    /\ UNCHANGED <<now, HUMANIZATION_SCALE, residential, mobile, stats, mobile_ratio,
                   worker_count, results, stop, rotVars, main, cur>>
    /\ UNCHANGED libVars

\* A later pass of the loop, or the first pass of the second _next_from_pool
\* call, of the allocate call in progress.
ScanStep(w) ==
    /\ w \in Workers /\ pc[w] = "scan" /\ lock = w
    /\ ScanIter(w, scan)
    /\ UNCHANGED <<now, HUMANIZATION_SCALE, residential, mobile, stats, mobile_ratio,
                   worker_count, results, stop, rotVars, main, cur>>
    /\ UNCHANGED libVars

\* Mutant of ReleaseStat: a blocked attempt is counted as a block only.
ReleaseStat_BlockOnly(stat, succ, blocked, duration) ==
    LET s1 == [stat EXCEPT !.times = Append(@, duration)]
        s2 == IF succ
              THEN [s1 EXCEPT !.success = @ + 1, !.fail_streak = 0]
              ELSE IF blocked
              THEN [s1 EXCEPT !.fail_streak = @ + 1]
              ELSE [s1 EXCEPT !.failure = @ + 1, !.fail_streak = @ + 1]
        s3 == IF blocked
              THEN [s2 EXCEPT !.blocks = @ + 1, !.fail_streak = @ + 1]
              ELSE s2
    IN  IF s3.fail_streak >= FAIL_STREAK_LIMIT
        THEN [s3 EXCEPT !.cooldown_until = now + COOLDOWN_SECS, !.fail_streak = 0]
        ELSE s3

\* Mutant of ReleaseStat: a streak of 3 is reset without a cooldown.
ReleaseStat_NoCooldown(stat, succ, blocked, duration) ==
    LET s1 == [stat EXCEPT !.times = Append(@, duration)]
        s2 == IF succ
              THEN [s1 EXCEPT !.success = @ + 1, !.fail_streak = 0]
              ELSE [s1 EXCEPT !.failure = @ + 1, !.fail_streak = @ + 1]
        s3 == IF blocked
              THEN [s2 EXCEPT !.blocks = @ + 1, !.fail_streak = @ + 1]
              ELSE s2
    IN  IF s3.fail_streak >= FAIL_STREAK_LIMIT
        THEN [s3 EXCEPT !.fail_streak = 0]
        ELSE s3

\* The statistics of a proxy after release(proxy, ptype, success, blocked, duration).
ReleaseStat(stat, succ, blocked, duration) ==
    LET s1 == [stat EXCEPT !.times = Append(@, duration)]
        s2 == IF succ
              THEN [s1 EXCEPT !.success = @ + 1, !.fail_streak = 0]
              ELSE [s1 EXCEPT !.failure = @ + 1, !.fail_streak = @ + 1]
        s3 == IF blocked
              THEN [s2 EXCEPT !.blocks = @ + 1, !.fail_streak = @ + 1]
              ELSE s2
    IN  IF s3.fail_streak >= FAIL_STREAK_LIMIT
        THEN [s3 EXCEPT !.cooldown_until = now + COOLDOWN_SECS, !.fail_streak = 0]
        ELSE s3

ReleaseRatio(ptype, succ) ==
    IF ptype = "residential" /\ ~succ
    THEN Min(MOBILE_RATIO_CAP, mobile_ratio + MOBILE_RATIO_UP)
    ELSE IF ptype = "residential" /\ succ
    THEN Max(INITIAL_MOBILE_RATIO, mobile_ratio - MOBILE_RATIO_DOWN)
    ELSE mobile_ratio

\* The finally clause of _worker: release, made under the lock, and the test
\* "if success or stop.is_set(): return" that follows it.
Release(w) ==
    /\ w \in Workers /\ pc[w] = "release" /\ lock = 0
    /\ LET l == locals[w]
       IN  /\ in_use' = in_use \ {l.proxy}
           /\ stats' = IF l.proxy \in DOMAIN stats
                       THEN [stats EXCEPT ![l.proxy] =
                                ReleaseStat(@, l.success, l.blocked, now - l.start)]
                       ELSE stats
           /\ mobile_ratio' = ReleaseRatio(l.ptype, l.success)
           /\ pc' = [pc EXCEPT ![w] = IF l.success \/ stop THEN "done" ELSE "loop"]
    /\ locals' = [locals EXCEPT ![w] = NoLocals]
    /\ UNCHANGED <<now, HUMANIZATION_SCALE, residential, mobile, res_index, mob_index,
                   lock, scan, worker_count, results, stop, rotVars, main, cur>>
    /\ UNCHANGED libVars

\* ------------------------------------------------- _worker, run_parallel
\* The test of the while loop.
LoopTest(w) ==
    /\ w \in Workers /\ pc[w] = "loop"
    /\ stop \/ AttemptsBegun < MaxAttempts
    /\ pc' = [pc EXCEPT ![w] = IF stop THEN "done" ELSE "allocate"]
    /\ UNCHANGED <<now, HUMANIZATION_SCALE, mgrVars, worker_count, locals, results, stop,
                   rotVars, main, cur>>
    /\ UNCHANGED libVars

\* The try block.  A result item is modelled by the attempt that produced it.
AttemptOutcomes == {"success", "bot_block", "exception", "exit_error"}
AttemptEnd(w) ==
    /\ w \in Workers /\ pc[w] = "attempt"
    /\ \E outcome \in AttemptOutcomes :
         LET succ == outcome \in {"success", "exit_error"}
             blocked == outcome # "success"
         IN  /\ locals' = [locals EXCEPT ![w].success = succ, ![w].blocked = blocked]
             /\ results' = IF succ
                           THEN results \o <<[by |-> w, proxy |-> locals[w].proxy]>>
                           ELSE results
             /\ stop' = (stop \/ succ)
    /\ pc' = [pc EXCEPT ![w] = "release"]
    /\ UNCHANGED <<now, HUMANIZATION_SCALE, mgrVars, worker_count, rotVars, main, cur>>
    /\ UNCHANGED libVars

\* Every thread is joined and run_parallel returns results.
RunParallelReturn ==
    /\ main = "join"
    /\ \A w \in Workers : pc[w] = "done"
    /\ main' = "returned"
    /\ UNCHANGED <<now, HUMANIZATION_SCALE, mgrVars, wrkVars, rotVars, cur>>
    /\ UNCHANGED libVars

TickPar ==
    /\ main = "join"
    /\ \E w \in Workers : pc[w] \in {"attempt", "scan"}
    /\ now + TickStep <= T0 + MaxTicksPar * TickStep
    /\ now' = now + TickStep
    /\ UNCHANGED <<HUMANIZATION_SCALE, mgrVars, wrkVars, rotVars, main, cur>>
    /\ UNCHANGED libVars

\* Mutant of WorkerCount: as many threads as requested.
WorkerCount_NoCap(parallel) == parallel
\* The number of threads run_parallel starts for --parallel.
WorkerCount(parallel) == Min(MAX_PARALLEL_CONTEXTS, parallel)

\* run_parallel after its threads are started.
InitPar ==
    /\ now = T0
    /\ HUMANIZATION_SCALE = SCALE_INIT
    /\ \E argsProxy \in ArgsProxy :
         /\ residential = ResidentialArg(argsProxy)
         /\ mobile = MOBILE_PROXIES
         /\ stats = [p \in Range(ResidentialArg(argsProxy)) \cup Range(MOBILE_PROXIES)
                       |-> ProxyStats]
    /\ res_index = 0 /\ mob_index = 0
    /\ mobile_ratio = INITIAL_MOBILE_RATIO
    /\ in_use = {}
    /\ lock = 0 /\ scan = NoScan
    /\ \E parallel \in ArgsParallel : worker_count = WorkerCount(parallel)
    /\ pc = [w \in Workers |-> "loop"]
    /\ locals = [w \in Workers |-> NoLocals]
    /\ results = <<>> /\ stop = FALSE
    /\ mode = "residential" /\ failures = 0 /\ success = 0 /\ last_mobile = 0
    /\ main = "join"
    /\ cur = NoCur
    /\ LibIdle

NextPar ==
    \/ \E w \in 1..MAX_PARALLEL_CONTEXTS :
         \/ LoopTest(w)
         \/ Allocate(w)
         \/ ScanStep(w)
         \/ AttemptEnd(w)
         \/ Release(w)
    \/ RunParallelReturn
    \/ TickPar

SpecPar == InitPar /\ [][NextPar]_vars

\* ------------------------------------------------------------ ProxyRotator
\* Mutant of GetProxy: no wrapping, None at the end of the pool.
GetProxy_NoWrap(pool, idx) ==
    IF Len(pool) = 0 \/ idx >= Len(pool)
    THEN [proxy |-> None, idx |-> idx]
    ELSE [proxy |-> PyIndex(pool, idx), idx |-> idx + 1]

\* _get_proxy(pool, idx).
GetProxy(pool, idx) ==
    IF Len(pool) = 0
    THEN [proxy |-> None, idx |-> idx]
    ELSE LET i == IF idx >= Len(pool) THEN 0 ELSE idx
         IN  [proxy |-> PyIndex(pool, i), idx |-> i + 1]

\* next_proxy: the proxy and type returned and the two indices afterwards.
NextProxy ==
    IF mode = "residential"
    THEN LET r == GetProxy(residential, res_index)
         IN  [proxy |-> r.proxy, ptype |-> "residential", res_index |-> r.idx,
              mob_index |-> mob_index]
    ELSE LET r == GetProxy(mobile, mob_index)
         IN  [proxy |-> r.proxy, ptype |-> "mobile", res_index |-> res_index,
              mob_index |-> r.idx]

\* Mutant of ScaleAfterFailure: the cap is left out.
ScaleAfterFailure_NoCap(scale) == scale + SCALE_UP
ScaleAfterFailure(scale) == Min(SCALE_CAP, scale + SCALE_UP)
ScaleAfterSuccess(scale) == Max(SCALE_FLOOR, scale - SCALE_DOWN)

\* The proxy whose counter record_failure and record_success increment, read
\* with the mode m that is current where the source reads it.
CountedProxy(m) ==
    IF m = "residential"
    THEN PyIndex(residential, res_index - 1)
    ELSE PyIndex(mobile, mob_index - 1)

\* Mutant of SwitchToMobile: the switch comes one failure late.
SwitchToMobile_Late(m, f) == m = "residential" /\ f > SWITCH_FAILURES
\* The test of record_failure that switches to mobile proxies.
SwitchToMobile(m, f) == m = "residential" /\ f >= SWITCH_FAILURES
\* The test of record_success that returns to residential proxies.
ReturnToResidential(m) == m = "mobile" /\ now - last_mobile > MOBILE_HOLD_SECS

\* record_failure: the fields of the rotator and the global afterwards.
RecordFailure ==
    LET f1 == failures + 1
        proxy == CountedProxy(mode)
        switch == SwitchToMobile(mode, f1)
    IN  [failures |-> IF switch THEN 0 ELSE f1,
         success |-> success,
         scale |-> ScaleAfterFailure(HUMANIZATION_SCALE),
         stats |-> IF proxy \in DOMAIN stats
                   THEN [stats EXCEPT ![proxy].failure = @ + 1]
                   ELSE stats,
         mode |-> IF switch THEN "mobile" ELSE mode,
         last_mobile |-> IF switch THEN now ELSE last_mobile]

\* record_success: the mode is switched before the proxy is read.
RecordSuccess ==
    LET mode1 == IF ReturnToResidential(mode) THEN "residential" ELSE mode
        proxy == CountedProxy(mode1)
    IN  [failures |-> 0,
         success |-> success + 1,
         scale |-> ScaleAfterSuccess(HUMANIZATION_SCALE),
         stats |-> IF proxy \in DOMAIN stats
                   THEN [stats EXCEPT ![proxy].success = @ + 1]
                   ELSE stats,
         mode |-> mode1,
         last_mobile |-> last_mobile]

\* ---------------------------------------------------------- run_sequential
\* The head of the retry loop: the test of bot_block, next_proxy, the break
\* on None, and the start time of the attempt.
NextProxyStep ==
    /\ main = "loop" /\ cur.bot_block
    /\ SumTimes(DOMAIN stats) < MaxSeqAttempts
    /\ LET r == NextProxy
       IN  /\ res_index' = r.res_index
           /\ mob_index' = r.mob_index
           /\ IF r.proxy = None
              THEN /\ main' = "returned"
                   /\ cur' = [cur EXCEPT !.proxy = r.proxy, !.ptype = r.ptype]
              ELSE /\ main' = "attempt"
                   /\ cur' = [cur EXCEPT !.proxy = r.proxy, !.ptype = r.ptype, !.start = now]
    /\ UNCHANGED <<now, HUMANIZATION_SCALE, residential, mobile, stats, mobile_ratio, in_use,
                   lock, scan, wrkVars, rotVars>>
    /\ UNCHANGED libVars

\* The rest of the loop body for one outcome of the searches.  A result item
\* is modelled by the attempt that produced it.
SeqOutcomes == {"success", "bot_block", "exception"}
SeqAttempt(outcome) ==
    /\ main = "attempt"
    /\ LET r == IF outcome = "success" THEN RecordSuccess ELSE RecordFailure
       IN  /\ failures' = r.failures
           /\ success' = r.success
           /\ HUMANIZATION_SCALE' = r.scale
           /\ mode' = r.mode
           /\ last_mobile' = r.last_mobile
           /\ stats' = IF cur.proxy \in DOMAIN r.stats
                       THEN [r.stats EXCEPT ![cur.proxy].times = Append(@, now - cur.start)]
                       ELSE r.stats
    /\ results' = IF outcome = "success"
                  THEN results \o <<[by |-> 0, proxy |-> cur.proxy]>>
                  ELSE results
    /\ cur' = [cur EXCEPT !.bot_block = (outcome # "success")]
    /\ main' = "loop"
    /\ UNCHANGED <<now, residential, mobile, res_index, mob_index, mobile_ratio, in_use,
                   lock, scan, worker_count, pc, locals, stop>>
    /\ UNCHANGED libVars

\* The loop ends because bot_block is False; run_sequential returns results.
RunSequentialReturn ==
    /\ main = "loop" /\ ~cur.bot_block
    /\ main' = "returned"
    /\ UNCHANGED <<now, HUMANIZATION_SCALE, mgrVars, wrkVars, rotVars, cur>>
    /\ UNCHANGED libVars

TickSeq ==
    /\ main \in {"loop", "attempt"}
    /\ now + TickStep <= T0 + MaxTicksSeq * TickStep
    /\ now' = now + TickStep
    /\ UNCHANGED <<HUMANIZATION_SCALE, mgrVars, wrkVars, rotVars, main, cur>>
    /\ UNCHANGED libVars

\* run_sequential with its rotator built.
InitSeq ==
    /\ now = T0
    /\ HUMANIZATION_SCALE = SCALE_INIT
    /\ \E argsProxy \in ArgsProxy :
         /\ residential = ResidentialArg(argsProxy)
         /\ mobile = MOBILE_PROXIES
         /\ stats = [p \in Range(ResidentialArg(argsProxy)) \cup Range(MOBILE_PROXIES)
                       |-> ProxyStats]
    /\ res_index = 0 /\ mob_index = 0
    /\ mobile_ratio = INITIAL_MOBILE_RATIO
    /\ in_use = {}
    /\ lock = 0 /\ scan = NoScan
    /\ worker_count = 0
    /\ pc = <<>> /\ locals = <<>>
    /\ results = <<>> /\ stop = FALSE
    /\ mode = "residential" /\ failures = 0 /\ success = 0 /\ last_mobile = 0
    /\ main = "loop"
    /\ cur = NoCur
    /\ LibIdle

NextSeq ==
    \/ NextProxyStep
    \/ \E outcome \in SeqOutcomes : SeqAttempt(outcome)
    \/ RunSequentialReturn
    \/ TickSeq

SpecSeq == InitSeq /\ [][NextSeq]_vars

\* The thread that holds the lock keeps running.
FairSpecPar ==
    SpecPar /\ \A w \in 1..MAX_PARALLEL_CONTEXTS : WF_vars(ScanStep(w))

\* ------------------------------------------------------------ RateLimiter
RATE_DELAY == 5
\* Numbers of threads that call RATE_LIMITER.wait: the one of run_sequential,
\* or two _worker threads.
RateCallers == {1, 2}
\* The domains fetch_html is called for.
RateDomains == {"www.truepeoplesearch.com", "www.fastpeoplesearch.com"}
NoWait == [domain |-> "", now |-> 0, wake |-> 0]

\* The variables of run_parallel and run_sequential while a library
\* function is looked at.
ProxyIdle ==
    /\ HUMANIZATION_SCALE = SCALE_INIT
    /\ residential = <<>> /\ mobile = <<>> /\ res_index = 0 /\ mob_index = 0
    /\ stats = <<>> /\ mobile_ratio = INITIAL_MOBILE_RATIO /\ in_use = {}
    /\ lock = 0 /\ scan = NoScan
    /\ worker_count = 0 /\ pc = <<>> /\ locals = <<>> /\ results = <<>> /\ stop = FALSE
    /\ mode = "residential" /\ failures = 0 /\ success = 0 /\ last_mobile = 0
    /\ main = "" /\ cur = NoCur

\* self.last.get(domain, 0)
LastGet(domain) == IF domain \in DOMAIN last THEN last[domain] ELSE 0
\* Mutant of SleepFor: the time since the last call is counted twice.
SleepFor_Short(t, last_time) == RATE_DELAY - 2 * (t - last_time)
\* sleep_for, from now = t and last_time.
SleepFor(t, last_time) == RATE_DELAY - (t - last_time)

\* wait(domain) is called by thread c: now = time.time().
WaitCall(c, domain) ==
    /\ c \in DOMAIN wpc /\ wpc[c] = "idle"
    /\ now < T0 + MaxRateTime
    /\ wloc' = [wloc EXCEPT ![c] = [domain |-> domain, now |-> now, wake |-> 0]]
    /\ wpc' = [wpc EXCEPT ![c] = "read"]
    /\ UNCHANGED <<now, proxyVars, last, returned, hold, phone>>

\* last_time is read, sleep_for is computed and, if positive, the sleep
\* begins.
WaitRead(c) ==
    /\ c \in DOMAIN wpc /\ wpc[c] = "read"
    /\ LET sleep_for == SleepFor(wloc[c].now, LastGet(wloc[c].domain))
       IN  IF sleep_for > 0
           THEN /\ wloc' = [wloc EXCEPT ![c].wake = now + sleep_for]
                /\ wpc' = [wpc EXCEPT ![c] = "sleep"]
           ELSE /\ wloc' = wloc
                /\ wpc' = [wpc EXCEPT ![c] = "set"]
    /\ UNCHANGED <<now, proxyVars, last, returned, hold, phone>>

\* time.sleep returns, not before the time asked for has passed.
WaitWake(c) ==
    /\ c \in DOMAIN wpc /\ wpc[c] = "sleep"
    /\ now >= wloc[c].wake
    /\ wpc' = [wpc EXCEPT ![c] = "set"]
    /\ UNCHANGED <<now, proxyVars, last, wloc, returned, hold, phone>>

\* self.last[domain] = time.time(), and wait returns.
WaitSet(c) ==
    /\ c \in DOMAIN wpc /\ wpc[c] = "set"
    /\ LET domain == wloc[c].domain
       IN  /\ last' = [d \in DOMAIN last \cup {domain} |->
                         IF d = domain THEN now ELSE last[d]]
           /\ returned' = [returned EXCEPT ![domain][c] = now]
    /\ wpc' = [wpc EXCEPT ![c] = "idle"]
    /\ wloc' = [wloc EXCEPT ![c] = NoWait]
    /\ UNCHANGED <<now, proxyVars, hold, phone>>

TickRate ==
    /\ now < T0 + MaxRateTime
    /\ now' = now + 1
    /\ UNCHANGED <<proxyVars, libVars>>

\* One thread (run_sequential) or several (_worker) use RATE_LIMITER.
InitRate ==
    /\ now = T0
    /\ ProxyIdle
    /\ last = <<>>
    /\ \E n \in RateCallers :
         /\ wpc = [c \in 1..n |-> "idle"]
         /\ wloc = [c \in 1..n |-> NoWait]
         /\ returned = [d \in RateDomains |-> [c \in 1..n |-> -1]]
    /\ hold = <<>> /\ phone = <<>>

NextRate ==
    \/ \E c \in 1..MAX_PARALLEL_CONTEXTS :
         \/ \E domain \in RateDomains : WaitCall(c, domain)
         \/ WaitRead(c)
         \/ WaitWake(c)
         \/ WaitSet(c)
    \/ TickRate

SpecRate == InitRate /\ [][NextRate]_vars

\* -------------------------------------------------- predict_hold_duration
\* A float: a number of tenths, or nan, inf, -inf.
Flt(v) == [kind |-> "num", v |-> v]
NaN == [kind |-> "nan", v |-> 0]
PosInf == [kind |-> "inf", v |-> 0]
NegInf == [kind |-> "-inf", v |-> 0]
\* a < b on floats: False when either is nan.
FloatLess(a, b) ==
    /\ a.kind # "nan" /\ b.kind # "nan"
    /\ \/ a.kind = "-inf" /\ b.kind # "-inf"
       \/ a.kind # "inf" /\ b.kind = "inf"
       \/ a.kind = "num" /\ b.kind = "num" /\ a.v < b.v
\* min(a, b) and max(a, b) of Python: a unless b is less, or greater.
PyMin(a, b) == IF FloatLess(b, a) THEN b ELSE a
PyMax(a, b) == IF FloatLess(a, b) THEN b ELSE a

\* Mutant of Constrain: the lower limit is left out.
Constrain_NoFloor(duration) == PyMin(Flt(60), duration)
\* max(3.0, min(6.0, duration))
Constrain(duration) == PyMax(Flt(30), PyMin(Flt(60), duration))

\* The models: None, one whose prediction raises (or cannot be unpacked or
\* converted), and one that predicts a float.
HoldModels ==
    {[kind |-> "None", action |-> NaN], [kind |-> "raises", action |-> NaN]}
      \cup {[kind |-> "predicts", action |-> a] :
              a \in {Flt(v) : v \in (0 - MaxHoldTenths)..MaxHoldTenths}
                      \cup {NaN, PosInf, NegInf}}
HoldDefaults == {Flt(v) : v \in 0..MaxHoldTenths}

predict_hold_duration(model, default) ==
    IF model.kind = "None" THEN default
    ELSE IF model.kind = "raises" THEN default
    ELSE Constrain(model.action)

PredictHold ==
    /\ hold # <<>> /\ ~hold.done
    /\ hold' = [hold EXCEPT !.result = predict_hold_duration(hold.model, hold.default),
                            !.done = TRUE]
    /\ UNCHANGED <<now, proxyVars, last, wpc, wloc, returned, phone>>

InitHold ==
    /\ now = T0
    /\ ProxyIdle
    /\ last = <<>> /\ wpc = <<>> /\ wloc = <<>> /\ returned = <<>> /\ phone = <<>>
    /\ \E model \in HoldModels : \E default \in HoldDefaults :
         hold = [model |-> model, default |-> default, result |-> NaN, done |-> FALSE]

NextHold == PredictHold

SpecHold == InitHold /\ [][NextHold]_vars

\* -------------------------------------------------------- _normalize_phone
\* A string is the sequence of its characters.
Digits == {"0", "1", "2", "3", "4", "5", "6", "7", "8", "9"}
IsDigit(ch) == ch \in Digits
\* The characters of the strings normalized here.
PhoneChars == {"1", "5", "-"}

\* Mutant of HasTenDigits: ten digits or more.
HasTenDigits_OrMore(digits) == Len(digits) >= 10
\* len(digits) == 10
HasTenDigits(digits) == Len(digits) = 10

\* f"+1 ({digits[:3]}) {digits[3:6]}-{digits[6:]}"
FormatPhone(digits) ==
    <<"+", "1", " ", "(">> \o SubSeq(digits, 1, Min(3, Len(digits))) \o <<")", " ">>
      \o SubSeq(digits, 4, Min(6, Len(digits))) \o <<"-">>
      \o SubSeq(digits, 7, Len(digits))

\* re.sub(r"\D", "", number), the length test and the result.
normalize_phone(number) ==
    LET digits == SelectSeq(number, IsDigit)
    IN  IF HasTenDigits(digits) THEN FormatPhone(digits) ELSE number

NormalizePhone ==
    /\ phone # <<>> /\ ~phone.done
    /\ phone' = [phone EXCEPT !.once = normalize_phone(phone.number),
                              !.twice = normalize_phone(normalize_phone(phone.number)),
                              !.done = TRUE]
    /\ UNCHANGED <<now, proxyVars, last, wpc, wloc, returned, hold>>

InitPhone ==
    /\ now = T0
    /\ ProxyIdle
    /\ last = <<>> /\ wpc = <<>> /\ wloc = <<>> /\ returned = <<>> /\ hold = <<>>
    /\ \E n \in 0..MaxPhoneLen : \E number \in [1..n -> PhoneChars] :
         phone = [number |-> number, once |-> <<>>, twice |-> <<>>, done |-> FALSE]

NextPhone == NormalizePhone

SpecPhone == InitPhone /\ [][NextPhone]_vars

\* ================================================================= claims
RECURSIVE SumFailure(_)
SumFailure(S) ==
    IF S = {} THEN 0
    ELSE LET p == CHOOSE q \in S : TRUE
         IN  stats[p].failure + SumFailure(S \ {p})
\* The number of record_failure calls so far.
TotalFailures == SumFailure(DOMAIN stats)

\* A worker holds a proxy from the return of allocate to the end of release.
Holding(w) == w \in Workers /\ pc[w] \in {"attempt", "release"}
SomeAvailable == \E p \in Range(residential) \cup Range(mobile) : Available(p)

\* C1: no proxy is held by two workers at the same time, and in_use is
\* exactly the set of proxies held: allocate adds the proxy it returns, which
\* was not in in_use, and only release takes a proxy out.
C1_NoProxyHeldTwice ==
    /\ \A w1 \in Workers : \A w2 \in Workers :
         (w1 # w2 /\ Holding(w1) /\ Holding(w2)) => locals[w1].proxy # locals[w2].proxy
    /\ in_use = {locals[w].proxy : w \in {v \in Workers : Holding(v)}}
\* Two workers hold proxies of the same type at once.
C1_Witness ==
    \E w1 \in Workers : \E w2 \in Workers :
      /\ w1 # w2 /\ pc[w1] = "attempt" /\ pc[w2] = "attempt"
      /\ locals[w1].ptype = locals[w2].ptype

\* C2 (as claimed): the results list that run_parallel returns holds the
\* results of at most one worker.
C2_FirstSuccessWins ==
    main = "returned" => Cardinality({results[i].by : i \in 1..Len(results)}) <= 1

\* C3: next_proxy returns a residential proxy as long as fewer than two
\* record_failure calls have been made, and a mobile proxy from then on.
C3_ResidentialThenMobile ==
    [][NextProxyStep =>
         /\ cur'.proxy # None
         /\ IF TotalFailures < 2
            THEN cur'.ptype = "residential" /\ cur'.proxy \in Range(residential)
            ELSE cur'.ptype = "mobile" /\ cur'.proxy \in Range(mobile)]_vars
\* An attempt runs on a mobile proxy.
C3_Witness == main = "attempt" /\ cur.ptype = "mobile" /\ TotalFailures = 2

\* C4: record_failure raises HUMANIZATION_SCALE by 0.1 unless it is at the
\* cap 2.0, where it stays; n failures in a row from 1.0 give
\* min(2.0, 1.0 + 0.1 n); record_success lowers it by 0.05, not below 1.0.
C4_ScaleEscalates ==
    [][/\ \A o \in {"bot_block", "exception"} : SeqAttempt(o) =>
            IF HUMANIZATION_SCALE = 200
            THEN HUMANIZATION_SCALE' = 200
            ELSE HUMANIZATION_SCALE' = HUMANIZATION_SCALE + 10
       /\ SeqAttempt("success") =>
            /\ HUMANIZATION_SCALE' >= 100
            /\ HUMANIZATION_SCALE' =
                 (IF HUMANIZATION_SCALE >= 105 THEN HUMANIZATION_SCALE - 5 ELSE 100)
       /\ success' = 0 => HUMANIZATION_SCALE' = Min(200, 100 + 10 * TotalFailures')]_vars
\* Eleven failures, the last one at the cap, and then a success.
C4_Witness == success = 1 /\ TotalFailures = 11 /\ HUMANIZATION_SCALE = 195

\* C5 (as claimed): a release that reports a failed attempt leaves
\* HUMANIZATION_SCALE larger than before unless it is at 2.0.
C5_ReleaseEscalates ==
    [][\A w \in 1..MAX_PARALLEL_CONTEXTS :
         (Release(w) /\ ~locals[w].success) =>
            (HUMANIZATION_SCALE' > HUMANIZATION_SCALE \/ HUMANIZATION_SCALE = 200)]_vars

\* C6 (as claimed): record_success and record_failure add one to the success
\* or failure counter of the proxy the last next_proxy call returned, and
\* change the counters of no other proxy.
C6_CountsReturnedProxy ==
    [][\A o \in SeqOutcomes : SeqAttempt(o) =>
         \A p \in DOMAIN stats :
            /\ stats'[p].success =
                 stats[p].success + (IF p = cur.proxy /\ o = "success" THEN 1 ELSE 0)
            /\ stats'[p].failure =
                 stats[p].failure + (IF p = cur.proxy /\ o # "success" THEN 1 ELSE 0)]_vars

\* C7: each release adds one to success + failure and to len(times) of its
\* proxy, adds one to blocks exactly when blocked is True, and leaves the
\* other proxies alone; nothing else changes the statistics; so success +
\* failure = len(times) and blocks <= len(times) for every proxy.
C7_ReleaseCounts ==
    [][/\ \A w \in 1..MAX_PARALLEL_CONTEXTS : Release(w) =>
            LET p == locals[w].proxy
            IN  /\ stats'[p].success + stats'[p].failure
                     = stats[p].success + stats[p].failure + 1
                /\ Len(stats'[p].times) = Len(stats[p].times) + 1
                /\ stats'[p].blocks
                     = stats[p].blocks + (IF locals[w].blocked THEN 1 ELSE 0)
                /\ \A q \in DOMAIN stats : q # p => stats'[q] = stats[q]
       /\ (\A w \in 1..MAX_PARALLEL_CONTEXTS : ~Release(w)) => stats' = stats
       /\ \A p \in DOMAIN stats' :
            /\ stats'[p].success + stats'[p].failure = Len(stats'[p].times)
            /\ stats'[p].blocks <= Len(stats'[p].times)]_vars
\* A proxy released three times: once with success, twice blocked.
C7_Witness ==
    \E p \in DOMAIN stats :
      stats[p].success = 1 /\ stats[p].failure = 2 /\ stats[p].blocks = 2

\* C8: when allocate returns a proxy, the proxy was not in in_use and its
\* cooldown had passed, and the type returned is that of the pool it was
\* taken from: the entry just before that pool's index, the other pool's
\* index left alone by the _next_from_pool call that found it.
C8_AllocateReturnsAvailable ==
    [][\A w \in 1..MAX_PARALLEL_CONTEXTS :
         ((Allocate(w) \/ ScanStep(w)) /\ pc'[w] = "attempt") =>
            LET p == locals'[w].proxy
                t == locals'[w].ptype
            IN  /\ p \notin in_use
                /\ p \in in_use'
                /\ stats[p].cooldown_until <= now
                /\ t \in {"mobile", "residential"}
                /\ t = "mobile" =>
                     p = PyIndex(mobile, mob_index' - 1) /\ res_index' = res_index
                /\ t = "residential" =>
                     p = PyIndex(residential, res_index' - 1) /\ mob_index' = mob_index]_vars
\* A proxy that was cooled down is allocated again after its cooldown.
C8_Witness ==
    \E w \in Workers :
      /\ pc[w] = "attempt"
      /\ stats[locals[w].proxy].cooldown_until > T0
      /\ stats[locals[w].proxy].cooldown_until <= now

\* C9 (as claimed): an allocate call made while some proxy of either pool is
\* available returns a proxy.
C9_AllocateReturnsProxy ==
    \A w \in 1..MAX_PARALLEL_CONTEXTS :
      (w \in Workers /\ pc[w] = "scan" /\ SomeAvailable)
        ~> (w \in Workers /\ pc[w] = "attempt")

\* C10 (as claimed): once every proxy has been tried and every attempt has
\* failed, next_proxy returns no proxy and run_sequential returns.
C10_StopsWhenExhausted ==
    [][(NextProxyStep /\ \A p \in DOMAIN stats : Len(stats[p].times) > 0)
         => main' = "returned"]_vars


\* C15 (as claimed): a _next_from_pool call examines each entry of its pool
\* at most once: after its first pass the entry it is about to examine is
\* never the one it started with.
C15_EachEntryOnce ==
    \A w \in 1..MAX_PARALLEL_CONTEXTS :
      (w \in Workers /\ pc[w] = "scan" /\ lock = w /\ scan.idx # scan.start) =>
         LET n == Len(PoolOf(scan.pool))
         IN  (IF scan.idx >= n THEN 0 ELSE scan.idx)
               # (IF scan.start >= n THEN 0 ELSE scan.start)

\* C16: release adds 1 to fail_streak for a failure and 1 for blocked, after
\* a success has reset it to 0; a streak of 3 or more is reset to 0 and sets
\* cooldown_until to now + 120, which nothing lowers afterwards; allocate
\* returns no proxy before its cooldown_until; after every release
\* 0 <= fail_streak <= 2.
C16_CooldownAfterStreak ==
    [][/\ \A w \in 1..MAX_PARALLEL_CONTEXTS : Release(w) =>
            LET p == locals[w].proxy
                s == (IF locals[w].success THEN 0 ELSE stats[p].fail_streak + 1)
                       + (IF locals[w].blocked THEN 1 ELSE 0)
            IN  IF s >= 3
                THEN /\ stats'[p].fail_streak = 0
                     /\ stats'[p].cooldown_until = now + 120
                ELSE /\ stats'[p].fail_streak = s
                     /\ stats'[p].cooldown_until = stats[p].cooldown_until
       /\ \A p \in DOMAIN stats :
            /\ stats'[p].fail_streak \in 0..2
            /\ stats'[p].cooldown_until >= stats[p].cooldown_until
       /\ \A w \in 1..MAX_PARALLEL_CONTEXTS :
            ((Allocate(w) \/ ScanStep(w)) /\ pc'[w] = "attempt") =>
               now >= stats[locals'[w].proxy].cooldown_until]_vars
\* The single residential proxy is cooling down after two blocked failures
\* and the next allocate has passed over it and returned a mobile proxy.
C16_Witness ==
    \E p \in Range(residential) : \E w \in Workers :
      /\ Len(residential) = 1
      /\ stats[p].cooldown_until = now + 120 /\ stats[p].fail_streak = 0
      /\ stats[p].failure = 2
      /\ pc[w] = "attempt" /\ locals[w].ptype = "mobile" /\ scan = NoScan
      /\ in_use = {locals[w].proxy}

\* C18 (as claimed): no _worker calls allocate after stop has been set.
C18_NoAllocateAfterStop ==
    [][\A w \in 1..MAX_PARALLEL_CONTEXTS : Allocate(w) => ~stop]_vars

\* C19: a next_proxy call returns a proxy, never None; it is the first entry
\* of the pool of the current mode when the call before it was not in this
\* mode, and otherwise the entry after the one returned before, the first
\* entry again after the last; the index of the other pool is unchanged.
C19_RoundRobin ==
    [][NextProxyStep =>
         LET pool == IF mode = "residential" THEN residential ELSE mobile
             n == Len(pool)
         IN  /\ cur'.proxy # None
             /\ cur'.ptype = mode
             /\ IF cur.ptype = mode
                THEN \E i \in 1..n :
                       /\ pool[i] = cur.proxy
                       /\ cur'.proxy = pool[IF i = n THEN 1 ELSE i + 1]
                ELSE cur'.proxy = pool[1]
             /\ mode = "residential" => mob_index' = mob_index
             /\ mode = "mobile" => res_index' = res_index]_vars
\* In mobile mode the last entry has been tried and the first is in use again.
C19_Witness ==
    /\ main = "attempt" /\ cur.ptype = "mobile" /\ cur.proxy = mobile[1]
    /\ Len(mobile) > 1
    /\ Len(stats[mobile[Len(mobile)]].times) > 0

C12_PerDomainSpacing ==
    [][/\ \A c \in 1..MAX_PARALLEL_CONTEXTS : WaitSet(c) =>
            LET prev == returned[wloc[c].domain][c]
            IN  prev = -1 \/ now - prev >= 5
       /\ \A c \in 1..MAX_PARALLEL_CONTEXTS : (Len(wpc) = 1 /\ WaitRead(c)) =>
            LET prev == returned[wloc[c].domain][c]
            IN  IF prev # -1 /\ wloc[c].now < prev + 5
                THEN /\ wpc'[c] = "sleep"
                     /\ wloc'[c].wake - now = 5 - (wloc[c].now - prev)
                     /\ wloc'[c].wake >= prev + 5
                ELSE wpc'[c] = "set"]_vars
\* The only thread returned from wait for one domain at T0 and for the other
\* two seconds later, and its second call for the first domain has slept
\* until T0 + 5.
C12_Witness ==
    /\ Len(wpc) = 1 /\ wpc[1] = "set" /\ now = T0 + 5
    /\ wloc[1].wake = T0 + 5
    /\ returned[wloc[1].domain][1] = T0
    /\ \E d \in RateDomains : d # wloc[1].domain /\ returned[d][1] = T0 + 2

\* C17 (as claimed): no thread returns from wait(d) less than 5 seconds
\* after any thread's return from wait(d).
C17_SpacingAcrossThreads ==
    [][\A c \in 1..MAX_PARALLEL_CONTEXTS : WaitSet(c) =>
         \A c2 \in DOMAIN wpc :
            LET prev == returned[wloc[c].domain][c2]
            IN  prev = -1 \/ now - prev >= 5]_vars

\* C13: predict_hold_duration returns the default when the model is None or
\* its prediction raises, and otherwise a number from 3.0 to 6.0: the
\* prediction itself when that lies in the range, 3.0 when it is below and
\* 6.0 when it is above or not a number.
C13_HoldConstrained ==
    (hold # <<>> /\ hold.done) =>
       IF hold.model.kind \in {"None", "raises"}
       THEN hold.result = hold.default
       ELSE LET a == hold.model.action
            IN  /\ hold.result.kind = "num"
                /\ hold.result.v >= 30 /\ hold.result.v <= 60
                /\ (a.kind = "num" /\ a.v >= 30 /\ a.v <= 60) => hold.result = a
                /\ (a.kind = "-inf" \/ (a.kind = "num" /\ a.v < 30)) => hold.result.v = 30
                /\ (a.kind \in {"inf", "nan"} \/ (a.kind = "num" /\ a.v > 60))
                     => hold.result.v = 60
\* A prediction of 7.5 s with a default of 4.5 s has given 6.0 s.
C13_Witness ==
    /\ hold # <<>> /\ hold.done /\ hold.model.kind = "predicts"
    /\ hold.model.action = Flt(75) /\ hold.default = Flt(45)
    /\ hold.result = Flt(60)

\* C14: normalizing a normalized number changes nothing; a string with
\* exactly 10 digits becomes "+1 (AAA) BBB-CCCC" with its digits in their
\* order, and any other string is returned unchanged.
C14_NormalizeIdempotent ==
    (phone # <<>> /\ phone.done) =>
       LET s == phone.number
           r == phone.once
           d == SelectSeq(s, LAMBDA ch : ch \in {"0", "1", "2", "3", "4", "5", "6", "7", "8", "9"})
       IN  /\ phone.twice = r
           /\ IF Len(d) = 10
              THEN r = <<"+", "1", " ", "(", d[1], d[2], d[3], ")", " ",
                         d[4], d[5], d[6], "-", d[7], d[8], d[9], d[10]>>
              ELSE r = s
\* Ten digits with a separator have been put into the format.
C14_Witness ==
    /\ phone # <<>> /\ phone.done
    /\ Len(phone.number) = 11 /\ phone.number[4] = "-"
    /\ Len(phone.once) = 17 /\ phone.once[5] = phone.number[1]

=============================================================================
